---- MODULE Spec2Model ----
(***************************************************************************)
(* Model of the self-improving CAPTCHA subsystem of AutoStepSMMO:         *)
(*   - AutoCaptchaLearner (auto_captcha_learner.py): the attempt store,   *)
(*     the retroactive and the immediate auto-labeler, the training       *)
(*     trigger;                                                           *)
(*   - auto_label_captcha.py: the offline labeling script;                *)
(*   - SimpleMMOBot._determine_captcha_model / _record_captcha_result     *)
(*     (simplemmo_bot.py): the model selection policy.                    *)
(*                                                                        *)
(* Conventions.  Python's None is the number None (-1): button indices    *)
(* are 1..4 and clock readings are >= 0, so it collides with no value.    *)
(* A question is a tuple of one-character strings.  A candidate image is  *)
(* abstracted by the weight base CLIP gives it for the question (the      *)
(* exponential of its logit): the softmax across the loaded images gives  *)
(* image i the probability w_i / sum(w).  NoImage (0) is a candidate      *)
(* whose bytes were None or could not be saved: no button_i.png exists.   *)
(* Time is datetime.now() in seconds.  An attempt folder is identified by *)
(* its position in its partition (folder names are unique timestamps).    *)
(***************************************************************************)
EXTENDS Integers, Sequences, FiniteSets, TLC

VARIABLES
    successes,      \* captcha_learning/successes: metadata + images per folder
    failures,       \* captcha_learning/failures
    stats,          \* learning_stats.json
    jobs,           \* training processes spawned by subprocess.Popen
    console,        \* which way the last record_attempt went (what it printed)
    now,            \* datetime.now(), seconds
    calls,          \* record_attempt calls made in this run
    clip_env,       \* whether torch/transformers/CLIP work on this machine
    base_model_failures,
    finetuned_model_failures,
    current_captcha_model,
    captcha_model_strategy,
    use_finetuned_captcha,  \* config["use_finetuned_captcha"]
    finetuned_exists,       \* os.path.exists("models/clip-captcha-finetuned")
    model_used,             \* the variant loaded for the solve in progress
    selections,             \* _determine_captcha_model calls made in this run
    streak_model,           \* history: the variant of the latest recorded result
    streak_len,             \* history: its failures in a row since the last switch
    since_switch,           \* history: failures of the active variant since the
                            \*   switch that activated it, no success between
    solve,          \* the latest _solve_captcha call: candidates, click, return value
    loads,          \* from_pretrained calls made by this process, per model
    solves,         \* _solve_captcha calls made in this run
    running,        \* detached training jobs (indices into jobs) that have not exited
    saving,         \* running jobs that are between os.makedirs and the end of
                    \*   processor.save_pretrained
    artifact_complete,  \* models/clip-captcha-finetuned holds a whole saved model
    pending,        \* <<folder, call, statistics in memory>> of a record_attempt
                    \*   whose immediate labeler has not run yet, else <<>>
    script_view,    \* auto_label_captcha.py between json.load and json.dump of a
                    \*   folder: <<index, metadata it read>>, else <<>>
    scoring         \* the CLIP forward pass of the call in progress: the logits it
                    \*   produced and the avg_probs computed from them

vars == <<successes, failures, stats, jobs, console, now, calls, clip_env,
          base_model_failures, finetuned_model_failures, current_captcha_model,
          captcha_model_strategy, use_finetuned_captcha, finetuned_exists,
          model_used, selections, streak_model, streak_len, since_switch,
          solve, loads, solves, running, saving, artifact_complete,
          pending, script_view, scoring>>

learner_vars == <<successes, failures, stats, jobs, console, now, calls, clip_env>>

policy_vars == <<base_model_failures, finetuned_model_failures, current_captcha_model,
                 captcha_model_strategy, use_finetuned_captcha, finetuned_exists,
                 model_used, selections, streak_model, streak_len, since_switch>>

solver_vars == <<solve, loads, solves>>

job_vars == <<running, saving, artifact_complete>>

race_vars == <<pending, script_view>>

None == -1
NoImage == 0
NumButtons == 4

(***************************************************************************)
(* Bounds.                                                                 *)
(***************************************************************************)
MaxCalls == 2           \* record_attempt calls per run
MaxTicks == 1           \* clock advances per run
MaxSelections == 12     \* model selections per run
MaxSolves == 2          \* _solve_captcha calls per run
MaxCorrupt == 1         \* metadata files damaged per run
NumTexts == 2           \* text variations per forward pass (the code builds 11)
MaxExp == 2             \* exp(logit) of an (image, text) pair, up to a common factor
TickSeconds == 1800     \* one clock advance

(***************************************************************************)
(* str.lower() and str.strip() on the characters the questions use.        *)
(***************************************************************************)
LowerChar(c) == IF c = "C" THEN "c" ELSE IF c = "H" THEN "h" ELSE c

Lower(s) == [i \in DOMAIN s |-> LowerChar(s[i])]

IsSpace(c) == c = " "

RECURSIVE LStrip(_)
LStrip(s) == IF s = <<>> THEN s
             ELSE IF IsSpace(Head(s)) THEN LStrip(Tail(s)) ELSE s

RECURSIVE RStrip(_)
RStrip(s) == IF s = <<>> THEN s
             ELSE IF IsSpace(s[Len(s)]) THEN RStrip(SubSeq(s, 1, Len(s) - 1)) ELSE s

Strip(s) == RStrip(LStrip(s))

\* metadata.get("question", "").lower().strip() == question.lower().strip()
QuestionMatchesExact(stored, question) == stored = question
QuestionMatches(stored, question) == Strip(Lower(stored)) = Strip(Lower(question))

(***************************************************************************)
(* Base CLIP scoring of the stored images (auto_captcha_learner.py 157-213, *)
(* auto_label_captcha.score_buttons).  Only the images whose file exists    *)
(* are loaded, in button order; scores are indexed by position in that     *)
(* list (idx + 1).  The score of a loaded image of weight w is             *)
(* 100 * w / T percent, T the sum of the loaded weights; comparisons are   *)
(* made exactly by cross-multiplying.                                      *)
(***************************************************************************)
HasImage(w) == w # NoImage

LoadedImages(images) == SelectSeq(images, HasImage)

RECURSIVE SumSeq(_)
SumSeq(s) == IF s = <<>> THEN 0 ELSE Head(s) + SumSeq(Tail(s))

\* list.sort(key=score, reverse=True): stable, equal scores keep list order
RECURSIVE InsertDesc(_, _)
InsertDesc(s, x) == IF s = <<>> THEN <<x>>
                    ELSE IF Head(s)[2] >= x[2] THEN <<Head(s)>> \o InsertDesc(Tail(s), x)
                    ELSE <<x>> \o s

RECURSIVE SortDesc(_, _)
SortDesc(ws, i) == IF i = 0 THEN <<>>
                   ELSE InsertDesc(SortDesc(ws, i - 1), <<i, ws[i]>>)

\* scores = [(idx + 1, avg_probs[idx] * 100)], sorted by score descending
SortedScores(images) == LET ws == LoadedImages(images) IN SortDesc(ws, Len(ws))

BestButton(images) == SortedScores(images)[1][1]
BestWeight(images) == SortedScores(images)[1][2]
\* margin = best_conf - scores[1][1] if len(scores) > 1 else best_conf
MarginWeight(images) ==
    LET sc == SortedScores(images)
    IN  IF Len(sc) > 1 THEN sc[1][2] - sc[2][2] ELSE sc[1][2]

MinConfAboveRandom == 10    \* min_conf = random_baseline + 10.0
MinMargin == 5              \* min_margin = 5.0

\* best_conf < min_conf, with best_conf = 100*w/T and min_conf = 100/n + 10
ConfBelow(w, T, n) == 100 * w * n < (100 + MinConfAboveRandom * n) * T
\* margin < min_margin, with margin = 100*mw/T
MarginBelow(mw, T) == 100 * mw < MinMargin * T

TooUncertainBoth(images) ==
    LET ws == LoadedImages(images)
    IN  /\ ConfBelow(BestWeight(images), SumSeq(ws), Len(ws))
        /\ MarginBelow(MarginWeight(images), SumSeq(ws))

TooUncertainStrict(images) ==
    LET ws == LoadedImages(images)
        w  == BestWeight(images)
        T  == SumSeq(ws)
        n  == Len(ws)
    IN  \/ 100 * w * n <= (100 + MinConfAboveRandom * n) * T
        \/ 100 * MarginWeight(images) <= MinMargin * T

\* if best_conf < min_conf or margin < min_margin: return
TooUncertain(images) ==
    LET ws == LoadedImages(images)
    IN  \/ ConfBelow(BestWeight(images), SumSeq(ws), Len(ws))
        \/ MarginBelow(MarginWeight(images), SumSeq(ws))

\* round(best_conf, 2), in hundredths of a percent (round half to even)
Round2(w, T) ==
    LET q == (10000 * w) \div T
        r == (10000 * w) % T
    IN  IF 2 * r > T THEN q + 1
        ELSE IF 2 * r < T THEN q
        ELSE IF q % 2 = 0 THEN q ELSE q + 1

BestConf(images) == Round2(BestWeight(images), SumSeq(LoadedImages(images)))

(***************************************************************************)
(* Metadata records.                                                       *)
(***************************************************************************)
CorrectAnswerNever(button_clicked, success) == None
\* "correct_answer": button_clicked if success else None
InitialCorrectAnswer(button_clicked, success) ==
    IF success THEN button_clicked ELSE None

\* metadata dict written by record_attempt, with the button_i.png files
NewAttempt(question, button_clicked, success, button_images) ==
    [question        |-> question,
     button_clicked  |-> button_clicked,
     success         |-> success,
     correct_answer  |-> InitialCorrectAnswer(button_clicked, success),
     auto_labeled    |-> FALSE,
     auto_label_conf |-> None,
     auto_label_tool |-> "",
     labeled_at      |-> None,
     images          |-> button_images,
     file            |-> "ok"]

\* the state of a folder's metadata.json: "ok", "missing" (no such file),
\* "malformed" (json.load raises on it)
FileStates == {"ok", "missing", "malformed"}

\* the first folder, in listing order, whose metadata.json does not parse
\* (Len + 1 when every one parses).  Folders are listed in name order.
FirstMalformed(fails) ==
    IF \E i \in DOMAIN fails : fails[i].file = "malformed"
    THEN CHOOSE i \in DOMAIN fails :
            /\ fails[i].file = "malformed"
            /\ \A j \in 1..(i - 1) : fails[j].file # "malformed"
    ELSE Len(fails) + 1

IsLabeledNever(m) == FALSE
\* metadata.get("correct_answer") is not None
IsLabeled(m) == m.correct_answer # None

FreshStats ==
    [total_attempts |-> 0, total_successes |-> 0, total_failures |-> 0,
     auto_labeled |-> 0, last_training |-> None, training_count |-> 0,
     labels_since_training |-> 0]

(***************************************************************************)
(* Training trigger: _check_auto_training, _trigger_background_training.   *)
(***************************************************************************)
MIN_LABELS_FOR_TRAINING == 20
MIN_HOURS_BETWEEN_TRAINING == 1
SecondsPerHour == 3600      \* total_seconds() / 3600

\* if self.stats['labels_since_training'] < MIN_LABELS_FOR_TRAINING: return
TooFewLabels(st) == st.labels_since_training < MIN_LABELS_FOR_TRAINING

TooSoonNever(st, t) == FALSE
\* if self.stats['last_training']: hours_since < MIN_HOURS_BETWEEN_TRAINING
TooSoon(st, t) ==
    /\ st.last_training # None
    /\ t - st.last_training < MIN_HOURS_BETWEEN_TRAINING * SecondsPerHour

StatsAfterLaunchNoReset(st, t) ==
    [st EXCEPT !.last_training = t, !.training_count = @ + 1]
\* the "Update stats" block after subprocess.Popen returned
StatsAfterLaunch(st, t) ==
    [st EXCEPT !.last_training = t,
               !.training_count = @ + 1,
               !.labels_since_training = 0]

\* spawn: what the environment does with the launch: Popen returns and the
\* job later completes ("completes") or dies ("crashes"), the script file is
\* not beside the module ("script_missing"), Popen raises ("popen_error")
SpawnOutcomes == {"completes", "crashes", "script_missing", "popen_error"}

TriggerBackgroundTraining(st, jb, t, spawn) ==
    IF spawn = "script_missing"
    THEN [stats |-> st, jobs |-> jb, trigger |-> "script_missing"]
    ELSE IF spawn = "popen_error"
    THEN [stats |-> st, jobs |-> jb, trigger |-> "popen_error"]
    ELSE [stats |-> StatsAfterLaunch(st, t),
          jobs |-> Append(jb, [started |-> t,
                               labels |-> st.labels_since_training,
                               auto_labeled |-> st.auto_labeled,
                               outcome |-> spawn]),
          trigger |-> "started"]

CheckAutoTraining(st, jb, t, spawn) ==
    IF TooFewLabels(st)
    THEN [stats |-> st, jobs |-> jb, trigger |-> "too_few"]
    ELSE IF TooSoon(st, t)
    THEN [stats |-> st, jobs |-> jb, trigger |-> "too_soon"]
    ELSE TriggerBackgroundTraining(st, jb, t, spawn)

CountLabelsOnce(st, n) ==
    [st EXCEPT !.auto_labeled = @ + 1, !.labels_since_training = @ + 1]
\* stats['auto_labeled'] += n; stats['labels_since_training'] += n
CountLabels(st, n) ==
    [st EXCEPT !.auto_labeled = @ + n, !.labels_since_training = @ + n]

(***************************************************************************)
(* Retroactive labeler: _auto_label_from_success.                          *)
(***************************************************************************)
RetroTargetsAnyQuestion(fails, question) ==
    {i \in DOMAIN fails :
        /\ i < FirstMalformed(fails)
        /\ fails[i].file = "ok"
        /\ ~IsLabeled(fails[i])}
\* the failures the loop writes to: reached before json.load raises, with a
\* metadata file, not yet labeled, same normalized question
RetroTargets(fails, question) ==
    {i \in DOMAIN fails :
        /\ i < FirstMalformed(fails)
        /\ fails[i].file = "ok"
        /\ ~IsLabeled(fails[i])
        /\ QuestionMatches(fails[i].question, question)}

RetroLabelRewritesClick(m, correct_button, t) ==
    [m EXCEPT !.correct_answer = correct_button,
              !.button_clicked = correct_button,
              !.auto_labeled = TRUE,
              !.labeled_at = t]
\* metadata["correct_answer"] = correct_button, and the two fields beside it
RetroLabel(m, correct_button, t) ==
    [m EXCEPT !.correct_answer = correct_button,
              !.auto_labeled = TRUE,
              !.labeled_at = t]

AutoLabelFromSuccess(fails, st, jb, question, correct_button, t, spawn) ==
    LET targets    == RetroTargets(fails, question)
        new_labels == Cardinality(targets)
        labeled    == [i \in DOMAIN fails |->
                          IF i \in targets
                          THEN RetroLabel(fails[i], correct_button, t)
                          ELSE fails[i]]
    IN  IF FirstMalformed(fails) <= Len(fails)
        \* json.load raised inside the loop: the labels written so far stay
        \* on disk, nothing after the loop runs
        THEN [failures |-> labeled, stats |-> st, jobs |-> jb, trigger |-> "none",
              raised |-> TRUE]
        ELSE IF new_labels > 0
        THEN LET chk == CheckAutoTraining(CountLabels(st, new_labels), jb, t, spawn)
             IN  [failures |-> labeled, stats |-> chk.stats, jobs |-> chk.jobs,
                  trigger |-> chk.trigger, raised |-> FALSE]
        ELSE [failures |-> labeled, stats |-> st, jobs |-> jb, trigger |-> "none",
              raised |-> FALSE]

(***************************************************************************)
(* Immediate labeler: _auto_label_with_clip.                               *)
(***************************************************************************)
\* clip: "ok", "not_installed" (ImportError), "error" (loading or scoring raises)
ClipOutcomes == {"ok", "not_installed", "error"}

ClipLabel(m, tool, t) ==
    [m EXCEPT !.correct_answer = BestButton(m.images),
              !.auto_labeled = TRUE,
              !.auto_label_conf = BestConf(m.images),
              !.auto_label_tool = tool,
              !.labeled_at = t]

\* which way _auto_label_with_clip leaves for the new failure m
ClipPath(m, clip) ==
    IF clip = "not_installed" THEN "not_installed"
    ELSE IF LoadedImages(m.images) = <<>> THEN "no_images"
    ELSE IF clip = "error" THEN "failed"
    ELSE IF TooUncertain(m.images) THEN "skipped"
    ELSE "labeled"

AutoLabelWithClip(m, st, jb, clip, t, spawn) ==
    IF ClipPath(m, clip) = "labeled"
    THEN LET chk == CheckAutoTraining(CountLabels(st, 1), jb, t, spawn)
         IN  [meta |-> ClipLabel(m, "base-clip-realtime", t), stats |-> chk.stats,
              jobs |-> chk.jobs, trigger |-> chk.trigger]
    ELSE [meta |-> m, stats |-> st, jobs |-> jb, trigger |-> "none"]

(***************************************************************************)
(* record_attempt, as a function of the persisted state                    *)
(* L = [successes, failures, stats, jobs, console].  stats is              *)
(* learning_stats.json: a call that raises before save_stats leaves it as  *)
(* it was.                                                                 *)
(***************************************************************************)
CountAttempt(st, success) ==
    [st EXCEPT !.total_attempts = @ + 1,
               !.total_successes = IF success THEN @ + 1 ELSE @,
               !.total_failures = IF success THEN @ ELSE @ + 1]

record_attempt(L, c, t) ==
    LET st1 == CountAttempt(L.stats, c.success)
        m   == NewAttempt(c.question, c.button_clicked, c.success, c.button_images)
    IN  IF c.success
        THEN LET r == AutoLabelFromSuccess(L.failures, st1, L.jobs, c.question,
                                           c.button_clicked, t, c.spawn)
             IN  [successes |-> Append(L.successes, m),
                  failures  |-> r.failures,
                  stats     |-> IF r.raised THEN L.stats ELSE r.stats,
                  jobs      |-> r.jobs,
                  console   |-> [clip |-> "none", trigger |-> r.trigger,
                                 raised |-> r.raised]]
        ELSE LET r == AutoLabelWithClip(m, st1, L.jobs, c.clip, t, c.spawn)
             IN  [successes |-> L.successes,
                  failures  |-> Append(L.failures, r.meta),
                  stats     |-> r.stats,
                  jobs      |-> r.jobs,
                  console   |-> [clip |-> ClipPath(m, c.clip), trigger |-> r.trigger,
                                 raised |-> FALSE]]

(***************************************************************************)
(* auto_label_captcha.py, one run over the failures partition.             *)
(***************************************************************************)
\* conf_ok = best_conf >= min_conf and margin >= min_margin
ConfOk(images) ==
    LET ws == LoadedImages(images)
    IN  /\ ~ConfBelow(BestWeight(images), SumSeq(ws), Len(ws))
        /\ ~MarginBelow(MarginWeight(images), SumSeq(ws))

ScriptWritesOnDryRun(m, dry_run, review, clip) ==
    /\ m.file = "ok"
    /\ ~(~review /\ IsLabeled(m))
    /\ LoadedImages(m.images) # <<>>
    /\ clip = "ok"
    /\ ConfOk(m.images)
ScriptWritesAlways(m, dry_run, review, clip) ==
    /\ m.file = "ok"
    /\ LoadedImages(m.images) # <<>>
    /\ clip = "ok"
    /\ ~review
    /\ ConfOk(m.images)
    /\ ~dry_run
\* the folders the main loop reaches line 203 for
ScriptWrites(m, dry_run, review, clip) ==
    /\ m.file = "ok"
    /\ ~(~review /\ IsLabeled(m))
    /\ LoadedImages(m.images) # <<>>
    /\ clip = "ok"
    /\ ~review
    /\ ConfOk(m.images)
    /\ ~dry_run

auto_label_captcha(fails, dry_run, review, clip, t) ==
    [i \in DOMAIN fails |->
        \* json.load of a malformed file ends the run
        IF i < FirstMalformed(fails) /\ ScriptWrites(fails[i], dry_run, review, clip)
        THEN ClipLabel(fails[i], "base-clip", t)
        ELSE fails[i]]

(***************************************************************************)
(* The scoring arithmetic of a forward pass, in exact rationals.  E[i][j]  *)
(* is exp(logits_per_image[i][j]) for image i and text j; a tensor of      *)
(* probabilities is kept as integer numerators over one denominator.       *)
(***************************************************************************)
RECURSIVE SumOver(_, _)
SumOver(f, n) == IF n = 0 THEN 0 ELSE f[n] + SumOver(f, n - 1)

RECURSIVE ProdOver(_, _)
ProdOver(f, n) == IF n = 0 THEN 1 ELSE f[n] * ProdOver(f, n - 1)

\* the normalisers of softmax(dim=0): one per text, summed over the images
ColumnSums(E) == [j \in 1..NumTexts |-> SumOver([i \in DOMAIN E |-> E[i][j]], Len(E))]
\* the normalisers of softmax(dim=1): one per image, summed over the texts
RowSums(E) == [i \in DOMAIN E |-> SumOver(E[i], NumTexts)]

SoftmaxAcrossTexts(E) ==
    LET R == RowSums(E)
        D == ProdOver(R, Len(E))
    IN  [num |-> [i \in DOMAIN E |-> [j \in 1..NumTexts |-> E[i][j] * (D \div R[i])]],
         den |-> D]
\* probs_per_text = logits_per_image.softmax(dim=0)
Softmax(E) ==
    LET S == ColumnSums(E)
        D == ProdOver(S, NumTexts)
    IN  [num |-> [i \in DOMAIN E |-> [j \in 1..NumTexts |-> E[i][j] * (D \div S[j])]],
         den |-> D]

\* avg_probs = probs_per_text.mean(dim=1)
MeanOverTexts(P) ==
    [num |-> [i \in DOMAIN P.num |-> SumOver(P.num[i], NumTexts)],
     den |-> P.den * NumTexts]

AvgProbs(E) == MeanOverTexts(Softmax(E))

\* the logits a forward pass can produce for n images
Logits(n) == [1..n -> [1..NumTexts -> 1..MaxExp]]

NoScoring == [logits |-> <<>>, avg_probs |-> [num |-> <<>>, den |-> 1]]

(***************************************************************************)
(* Model selection policy: SimpleMMOBot._determine_captcha_model and       *)
(* _record_captcha_result.  current_captcha_model is Unset until the first *)
(* smart_fallback selection that finds the artifact.                       *)
(***************************************************************************)
Unset == "None"
captcha_failure_threshold == 5

ThresholdReachedStrict(n) == n > captcha_failure_threshold
\* if self.base_model_failures >= threshold / self.finetuned_model_failures >= threshold
ThresholdReached(n) == n >= captcha_failure_threshold

\* the smart_fallback branch: the policy state after the call
SmartFallback(P) ==
    LET cur == IF P.current_captcha_model = Unset THEN "finetuned"
               ELSE P.current_captcha_model
    IN  IF cur = "base" /\ ThresholdReached(P.base_model_failures)
        THEN [P EXCEPT !.current_captcha_model = "finetuned", !.base_model_failures = 0]
        ELSE IF cur = "finetuned" /\ ThresholdReached(P.finetuned_model_failures)
        THEN [P EXCEPT !.current_captcha_model = "base", !.finetuned_model_failures = 0]
        ELSE [P EXCEPT !.current_captcha_model = cur]

\* _determine_captcha_model: [state |-> policy state after, choice |-> returned variant]
determine_captcha_model(P, strategy, exists, use_ft) ==
    IF ~exists THEN [state |-> P, choice |-> "base"]
    ELSE IF strategy = "base_only" THEN [state |-> P, choice |-> "base"]
    ELSE IF strategy = "finetuned_only" THEN [state |-> P, choice |-> "finetuned"]
    ELSE IF strategy = "smart_fallback"
    THEN [state |-> SmartFallback(P), choice |-> SmartFallback(P).current_captcha_model]
    ELSE [state |-> P, choice |-> IF use_ft THEN "finetuned" ELSE "base"]

FailuresAfterKeepOnSuccess(n, success) == n + 1
\* the counter of model_used: 0 on success, += 1 on failure
FailuresAfter(n, success) == IF success THEN 0 ELSE n + 1

record_captcha_result(P, success, used) ==
    IF used = "base"
    THEN [P EXCEPT !.base_model_failures = FailuresAfter(@, success)]
    ELSE IF used = "finetuned"
    THEN [P EXCEPT !.finetuned_model_failures = FailuresAfter(@, success)]
    ELSE P

PolicyState ==
    [base_model_failures |-> base_model_failures,
     finetuned_model_failures |-> finetuned_model_failures,
     current_captcha_model |-> current_captcha_model]

(***************************************************************************)
(* The solver: SimpleMMOBot._solve_captcha and _solve_captcha_on_page.     *)
(* page is the four buttons of the challenge, each the weight the loaded   *)
(* model gives its screenshot (NoImage: both screenshot strategies failed, *)
(* the button is left out of button_images).                               *)
(***************************************************************************)
\* score = int(float(avg_probs[i]) * 100)
IntScore(w, T) == (100 * w) \div T

\* for i, img_data in enumerate(button_images): if score > best_score: ...
\* best is <<best_idx, best_score>>, (None, 0) before the loop
RECURSIVE BestMatch(_, _, _, _)
BestMatch(page, T, i, best) ==
    IF i > Len(page) THEN best
    ELSE IF HasImage(page[i]) /\ IntScore(page[i], T) > best[2]
    THEN BestMatch(page, T, i + 1, <<i, IntScore(page[i], T)>>)
    ELSE BestMatch(page, T, i + 1, best)

\* best_idx of _solve_captcha (None: best_match stayed None)
SolverBestIdx(page) ==
    BestMatch(page, SumSeq(LoadedImages(page)), 1, <<None, 0>>)[1]

\* best_idx of _solve_captcha_on_page: scores.sort(reverse=True); scores[0][0] + 1
OnPageBestIdx(page) ==
    LET T == SumSeq(page)
    IN  SortDesc([i \in DOMAIN page |-> IntScore(page[i], T)], Len(page))[1][1]

\* button_images_bytes: one PNG per loaded image, in list order; record_attempt
\* saves entry i as button_{i+1}.png
ButtonImagesBytes(page) ==
    LET l == LoadedImages(page)
    IN  [i \in 1..NumButtons |-> IF i <= Len(l) THEN l[i] ELSE NoImage]

\* what can raise in a solve: nothing, from_pretrained, the forward pass, the
\* reading of the page after the click
SolverFaults == {"none", "load", "score", "check"}

\* how far a solve gets.  deps: are PIL/torch/transformers importable;
\* verdict: did the site accept the click
SolveOutcome(page, on_page, deps, fault, verdict) ==
    IF ~deps THEN "import_error"
    ELSE IF fault = "load" THEN "model_error"
    ELSE IF on_page /\ Len(LoadedImages(page)) < NumButtons THEN "too_few_images"
    ELSE IF ~on_page /\ LoadedImages(page) = <<>> THEN "no_images"
    ELSE IF fault = "score" THEN "model_error"
    ELSE IF ~on_page /\ SolverBestIdx(page) = None THEN "no_button"
    \* the click is made; reading the page back raises
    ELSE IF fault = "check" THEN "check_error"
    ELSE IF verdict THEN "solved" ELSE "failed"

\* the solve read the site's verdict on its click: the branches that call
\* _record_captcha_result and record_attempt
Verdict(outcome) == outcome \in {"solved", "failed"}

\* the button the solve clicks, None when it returns before clicking
ClickedButton(page, on_page, outcome) ==
    IF outcome \notin {"solved", "failed", "check_error"} THEN None
    ELSE IF on_page THEN OnPageBestIdx(page) ELSE SolverBestIdx(page)

SolverReturnUncaught(outcome) ==
    IF outcome = "solved" THEN "True"
    ELSE IF outcome \in {"import_error", "model_error"} THEN "raised"
    ELSE "False"
\* the value the call returns: every exception ends in an except clause
\* that returns False
SolverReturn(outcome) ==
    IF outcome = "solved" THEN "True" ELSE "False"

(***************************************************************************)
(* Inputs.                                                                 *)
(***************************************************************************)
Questions == {<<"C", "h">>, <<"c", "H", " ">>, <<"a", "p">>}
Clicks == {1, 3}
FailedClicks == {3}

Confident    == <<70, 20, 6, 4>>
LowConf      == <<30, 28, 22, 20>>
Boundary     == <<20, 15, 35, 30>>
SmallMargin  == <<40, 38, 12, 10>>
FirstMissing == <<NoImage, 20, 6, 4>>
NoImages     == <<NoImage, NoImage, NoImage, NoImage>>

ImageSets == {Confident, LowConf, Boundary, SmallMargin, FirstMissing}

\* the two best within one percent of each other, the better one second
NearTie == <<342, 349, 200, 109>>
\* the pages a solve meets, and the item they ask for
SolverPages == {Confident, LowConf, NearTie, FirstMissing}
SolverQuestions == {<<"C", "h">>}

Call(q, k, s, imgs, clip, spawn) ==
    [question |-> q, button_clicked |-> k, success |-> s, button_images |-> imgs,
     clip |-> clip, spawn |-> spawn]

FailureCalls ==
    {Call(q, k, FALSE, imgs, clip, spawn) :
        q \in Questions, k \in FailedClicks, imgs \in ImageSets,
        clip \in ClipOutcomes, spawn \in SpawnOutcomes}

SuccessCalls ==
    {Call(q, k, TRUE, imgs, clip, spawn) :
        q \in Questions, k \in Clicks, imgs \in {Confident},
        clip \in ClipOutcomes, spawn \in SpawnOutcomes}

(***************************************************************************)
(* The store a process finds at start: what earlier runs of record_attempt *)
(* left on disk.  Each is computed by replaying calls on the empty store.  *)
(***************************************************************************)
EmptyStore ==
    [successes |-> <<>>, failures |-> <<>>, stats |-> FreshStats, jobs |-> <<>>,
     console |-> [clip |-> "none", trigger |-> "none", raised |-> FALSE]]

RECURSIVE Replay(_, _)
Replay(L, cs) == IF cs = <<>> THEN L ELSE Replay(record_attempt(L, Head(cs), 0), Tail(cs))

LabeledFailure == Call(<<"a", "p">>, 3, FALSE, Confident, "ok", "completes")

\* unlabeled failures (two on the same normalized question, one recorded while
\* CLIP could not be loaded) and a labeled one
MixedHistory ==
    << Call(<<"C", "h">>, 3, FALSE, LowConf, "ok", "completes"),
       Call(<<"c", "H", " ">>, 3, FALSE, SmallMargin, "ok", "completes"),
       Call(<<"C", "h">>, 3, FALSE, Boundary, "ok", "completes"),
       Call(<<"a", "p">>, 1, FALSE, NoImages, "ok", "completes"),
       Call(<<"a", "p">>, 1, FALSE, Confident, "error", "completes") >>

\* 18 labeled failures, never trained
History18 == [i \in 1..(MIN_LABELS_FOR_TRAINING - 2) |-> LabeledFailure]
\* 20 labeled failures (the 20th launches training at time 0), then 18 more
History38 == [i \in 1..(2 * MIN_LABELS_FOR_TRAINING - 2) |-> LabeledFailure]

\* 20 labeled failures; the 20th launched a training job that will run to
\* its end or die on the way
TrainingHistory(spawn) ==
    [i \in 1..MIN_LABELS_FOR_TRAINING |->
        Call(<<"a", "p">>, 3, FALSE, Confident, "ok", spawn)]

\* the store of History38
Store38 == Replay(EmptyStore, History38)
\* 40 labeled failures: the 20th launched training at time 0, the 20 after it
\* came within the hour and wait in labels_since_training
Store40 == Replay(Store38, <<LabeledFailure, LabeledFailure>>)

\* (store on disk, state of the CLIP installation) at process start
InitialStores ==
    {<<EmptyStore, "ok">>, <<EmptyStore, "not_installed">>,
     <<Replay(EmptyStore, MixedHistory), "ok">>,
     <<Replay(EmptyStore, MixedHistory), "error">>,
     <<Replay(EmptyStore, History18), "ok">>,
     <<Replay(EmptyStore, History38), "ok">>}

Strategies == {"smart_fallback", "base_only", "finetuned_only", "legacy"}

\* the run starts half an hour after the stored attempts were recorded
StartTime == TickSeconds

InitLearner ==
    /\ \E S \in InitialStores :
        /\ successes = S[1].successes
        /\ failures = S[1].failures
        /\ stats = S[1].stats
        /\ jobs = S[1].jobs
        /\ console = S[1].console
        /\ clip_env = S[2]
    /\ now = StartTime
    /\ calls = 0

NoSolve == [images |-> <<>>, clicked |-> None, outcome |-> "none", returned |-> "none"]
NoLoads == [base |-> 0, finetuned |-> 0, labeler |-> 0]

\* nothing solved or loaded yet, no job alive, no labeling in progress
InitIdle ==
    /\ solve = NoSolve
    /\ loads = NoLoads
    /\ solves = 0
    /\ running = {}
    /\ saving = {}
    /\ pending = <<>>
    /\ script_view = <<>>
    /\ scoring = NoScoring

\* SimpleMMOBot.__init__, lines 84-89
InitPolicy ==
    /\ base_model_failures = 0
    /\ finetuned_model_failures = 0
    /\ current_captcha_model = Unset
    /\ model_used = "none"
    /\ selections = 0
    /\ streak_model = "none"
    /\ streak_len = 0
    /\ since_switch = None

Init ==
    /\ InitLearner
    /\ InitPolicy
    /\ captcha_model_strategy = "smart_fallback"
    /\ use_finetuned_captcha = FALSE
    /\ finetuned_exists = FALSE
    /\ artifact_complete = FALSE
    /\ InitIdle

\* a process starting on the store of MixedHistory, CLIP working
InitStorage ==
    /\ \E L \in {Replay(EmptyStore, MixedHistory)} :
        /\ successes = L.successes
        /\ failures = L.failures
        /\ stats = L.stats
        /\ jobs = L.jobs
        /\ console = L.console
    /\ clip_env = "ok"
    /\ now = StartTime
    /\ calls = 0
    /\ InitPolicy
    /\ captcha_model_strategy = "smart_fallback"
    /\ use_finetuned_captcha = FALSE
    /\ finetuned_exists = FALSE
    /\ artifact_complete = FALSE
    /\ InitIdle

\* a process starting on a store of 18, 38 or 40 labeled failures; the
\* training job an earlier run launched is detached and may still be running
InitTraining ==
    /\ \E L \in {Replay(EmptyStore, History18), Store38, Store40} :
        /\ successes = L.successes
        /\ failures = L.failures
        /\ stats = L.stats
        /\ jobs = L.jobs
        /\ console = L.console
        /\ running \in SUBSET (DOMAIN L.jobs)
    /\ clip_env = "ok"
    /\ now = StartTime
    /\ calls = 0
    /\ InitPolicy
    /\ captcha_model_strategy = "smart_fallback"
    /\ use_finetuned_captcha = FALSE
    /\ finetuned_exists = FALSE
    /\ artifact_complete = FALSE
    /\ solve = NoSolve
    /\ loads = NoLoads
    /\ solves = 0
    /\ saving = {}
    /\ pending = <<>>
    /\ script_view = <<>>
    /\ scoring = NoScoring

\* a bot starting while the training job of an earlier run is still running,
\* with or without an artifact of an earlier training on disk
InitArtifact ==
    /\ \E spawn \in {"completes", "crashes"} :
        \E L \in {Replay(EmptyStore, TrainingHistory(spawn))} :
            /\ successes = L.successes
            /\ failures = L.failures
            /\ stats = L.stats
            /\ jobs = L.jobs
            /\ console = L.console
            /\ running = DOMAIN L.jobs
    /\ clip_env = "ok"
    /\ now = StartTime
    /\ calls = 0
    /\ InitPolicy
    /\ captcha_model_strategy = "smart_fallback"
    /\ use_finetuned_captcha = FALSE
    /\ finetuned_exists \in BOOLEAN
    /\ artifact_complete = finetuned_exists
    /\ solve = NoSolve
    /\ loads = NoLoads
    /\ solves = 0
    /\ saving = {}
    /\ pending = <<>>
    /\ script_view = <<>>
    /\ scoring = NoScoring

\* two writers starting on an empty store or on the store of MixedHistory
InitRace ==
    /\ \E L \in {EmptyStore, Replay(EmptyStore, MixedHistory)} :
        /\ successes = L.successes
        /\ failures = L.failures
        /\ stats = L.stats
        /\ jobs = L.jobs
        /\ console = L.console
    /\ clip_env = "ok"
    /\ now = StartTime
    /\ calls = 0
    /\ InitPolicy
    /\ captcha_model_strategy = "smart_fallback"
    /\ use_finetuned_captcha = FALSE
    /\ finetuned_exists = FALSE
    /\ artifact_complete = FALSE
    /\ InitIdle

\* a process that has loaded CLIP and scored nothing yet
InitScores ==
    /\ \E L \in {EmptyStore} :
        /\ successes = L.successes
        /\ failures = L.failures
        /\ stats = L.stats
        /\ jobs = L.jobs
        /\ console = L.console
    /\ clip_env = "ok"
    /\ now = StartTime
    /\ calls = 0
    /\ InitPolicy
    /\ captcha_model_strategy = "smart_fallback"
    /\ use_finetuned_captcha = FALSE
    /\ finetuned_exists = FALSE
    /\ artifact_complete = FALSE
    /\ InitIdle

\* a bot starting on an empty captcha_learning directory
InitSolver ==
    /\ successes = <<>>
    /\ failures = <<>>
    /\ stats = FreshStats
    /\ jobs = <<>>
    /\ console = EmptyStore.console
    /\ now = StartTime
    /\ calls = 0
    /\ clip_env \in ClipOutcomes
    /\ InitPolicy
    /\ captcha_model_strategy = "smart_fallback"
    /\ use_finetuned_captcha = FALSE
    /\ finetuned_exists \in BOOLEAN
    /\ artifact_complete = finetuned_exists
    /\ InitIdle

InitAnyConfig ==
    /\ successes = <<>>
    /\ failures = <<>>
    /\ stats = FreshStats
    /\ jobs = <<>>
    /\ console = EmptyStore.console
    /\ now = 0
    /\ calls = 0
    /\ clip_env = "ok"
    /\ InitPolicy
    /\ captcha_model_strategy \in Strategies
    /\ use_finetuned_captcha \in BOOLEAN
    /\ finetuned_exists \in BOOLEAN
    /\ artifact_complete = finetuned_exists
    /\ InitIdle

(***************************************************************************)
(* Actions of the learner.                                                 *)
(***************************************************************************)
\* if not hasattr(AutoCaptchaLearner, "_clip_model"): from_pretrained, kept on
\* the class; reached when the labeler got as far as scoring
LabelerLoads(n, path) ==
    IF path \in {"skipped", "labeled"} /\ n = 0 THEN 1 ELSE n

\* the processes subprocess.Popen started during a call
NewJobs(before, after) == (DOMAIN after) \ (DOMAIN before)

Store ==
    [successes |-> successes, failures |-> failures, stats |-> stats, jobs |-> jobs,
     console |-> console]

RecordAttempt ==
    /\ calls < MaxCalls
    /\ \E c \in FailureCalls \cup SuccessCalls :
        /\ c.clip = clip_env
        /\ \E L \in {record_attempt(Store, c, now)} :
            /\ successes' = L.successes
            /\ failures' = L.failures
            /\ stats' = L.stats
            /\ jobs' = L.jobs
            /\ console' = L.console
            /\ loads' = [loads EXCEPT !.labeler = LabelerLoads(@, L.console.clip)]
            /\ running' = running \cup NewJobs(jobs, L.jobs)
    /\ calls' = calls + 1
    /\ UNCHANGED <<scoring, now, clip_env, policy_vars, solve, solves, saving, artifact_complete,
                   race_vars>>

AutoLabelScript ==
    /\ \E dry_run \in BOOLEAN, review \in BOOLEAN :
        failures' = auto_label_captcha(failures, dry_run, review, clip_env, now)
    /\ failures' # failures
    /\ UNCHANGED <<scoring, successes, stats, jobs, console, now, calls, clip_env, policy_vars,
                   solver_vars, job_vars, race_vars>>

\* the environment damages a failure folder: its metadata.json is lost, or
\* left unparsable (a write cut short, a full disk)
CorruptMetadata ==
    /\ Cardinality({i \in DOMAIN failures : failures[i].file # "ok"}) < MaxCorrupt
    /\ \E i \in DOMAIN failures, damage \in FileStates \ {"ok"} :
        /\ failures[i].file = "ok"
        /\ failures' = [failures EXCEPT ![i].file = damage]
    /\ UNCHANGED <<scoring, successes, stats, jobs, console, now, calls, clip_env, policy_vars,
                   solver_vars, job_vars, race_vars>>

Tick ==
    /\ now < StartTime + MaxTicks * TickSeconds
    /\ now' = now + TickSeconds
    /\ UNCHANGED <<scoring, successes, failures, stats, jobs, console, calls, clip_env, policy_vars,
                   solver_vars, job_vars, race_vars>>

(***************************************************************************)
(* Labeling step by step: the writers of one metadata.json as the          *)
(* processes interleave.  pending is (folder, call, statistics in memory)  *)
(* of the failure record_attempt has written and not yet handed through    *)
(* _auto_label_with_clip; script_view                                      *)
(* is the (folder, metadata) the script has read and not yet written back. *)
(***************************************************************************)
\* record_attempt of a failure up to line 126: metadata.json written with
\* correct_answer None, the attempt counted in memory
AppendFailure ==
    /\ calls < MaxCalls
    /\ pending = <<>>
    /\ \E c \in FailureCalls :
        /\ c.clip = clip_env
        /\ failures' = Append(failures, NewAttempt(c.question, c.button_clicked,
                                                   c.success, c.button_images))
        /\ pending' = <<Len(failures) + 1, c, CountAttempt(stats, c.success)>>
    /\ calls' = calls + 1
    /\ UNCHANGED <<scoring, successes, stats, jobs, console, now, clip_env, policy_vars,
                   solver_vars, job_vars, script_view>>

\* the rest of that record_attempt: _auto_label_with_clip scores the images,
\* then rereads metadata.json, sets the label fields and writes it back
\* (lines 230-241), whatever the file holds by then; save_stats
ImmediateLabel ==
    /\ pending # <<>>
    /\ LET c == pending[2]
           m == NewAttempt(c.question, c.button_clicked, c.success, c.button_images)
       IN  \E r \in {AutoLabelWithClip(m, pending[3], jobs, c.clip, now, c.spawn)} :
            /\ failures' = IF ClipPath(m, c.clip) = "labeled"
                            THEN [failures EXCEPT ![pending[1]] =
                                     ClipLabel(@, "base-clip-realtime", now)]
                            ELSE failures
            /\ stats' = r.stats
            /\ jobs' = r.jobs
            /\ running' = running \cup NewJobs(jobs, r.jobs)
            /\ console' = [clip |-> ClipPath(m, c.clip), trigger |-> r.trigger,
                           raised |-> FALSE]
            /\ loads' = [loads EXCEPT !.labeler = LabelerLoads(@, ClipPath(m, c.clip))]
    /\ pending' = <<>>
    /\ UNCHANGED <<scoring, successes, now, calls, clip_env, policy_vars, solve, solves, saving,
                   artifact_complete, script_view>>

\* auto_label_captcha.py reads a folder's metadata.json (lines 135-136) and
\* goes on to score it: the folder passes every check before line 203
ScriptReads ==
    /\ script_view = <<>>
    /\ \E i \in DOMAIN failures :
        /\ i < FirstMalformed(failures)
        /\ ScriptWrites(failures[i], FALSE, FALSE, clip_env)
        /\ script_view' = <<i, failures[i]>>
    /\ UNCHANGED <<scoring, learner_vars, policy_vars, solver_vars, job_vars, pending>>

\* lines 203-210: the dict read earlier gets the label fields and is written
ScriptWritesBack ==
    /\ script_view # <<>>
    /\ failures' = [failures EXCEPT ![script_view[1]] =
                        ClipLabel(script_view[2], "base-clip", now)]
    /\ script_view' = <<>>
    /\ UNCHANGED <<scoring, successes, stats, jobs, console, now, calls, clip_env, policy_vars,
                   solver_vars, job_vars, pending>>

(***************************************************************************)
(* A forward pass of CLIP over the loaded button images and the text       *)
(* variations, in _solve_captcha, _solve_captcha_on_page and               *)
(* _auto_label_with_clip alike.                                            *)
(***************************************************************************)
ScoreButtons ==
    /\ scoring = NoScoring
    /\ \E n \in 1..NumButtons : \E E \in Logits(n) :
        scoring' = [logits |-> E, avg_probs |-> AvgProbs(E)]
    /\ UNCHANGED <<learner_vars, policy_vars, solver_vars, job_vars, race_vars>>

\* the call that ran the forward pass returns; its tensors are dropped
ScoringReturns ==
    /\ scoring # NoScoring
    /\ scoring' = NoScoring
    /\ UNCHANGED <<learner_vars, policy_vars, solver_vars, job_vars, race_vars>>

(***************************************************************************)
(* The detached train_captcha_model.py process.                            *)
(***************************************************************************)
\* the epochs are over: os.makedirs(output_dir, exist_ok=True), and the
\* save_pretrained calls begin writing into the directory
JobStartsSaving ==
    /\ \E j \in running \ saving : saving' = saving \cup {j}
    /\ finetuned_exists' = TRUE
    /\ artifact_complete' = FALSE
    /\ UNCHANGED <<scoring, learner_vars, base_model_failures, finetuned_model_failures,
                   current_captcha_model, captcha_model_strategy, use_finetuned_captcha,
                   model_used, selections, streak_model, streak_len, since_switch,
                   solver_vars, running, race_vars>>

\* processor.save_pretrained returned; the process exits
JobFinishes ==
    /\ \E j \in saving :
        /\ jobs[j].outcome = "completes"
        /\ saving' = saving \ {j}
        /\ running' = running \ {j}
    \* the directory is whole once no process is still writing into it
    /\ artifact_complete' = (saving' = {})
    /\ UNCHANGED <<scoring, learner_vars, policy_vars, solver_vars, race_vars>>

\* the process dies, before or in the middle of the save
JobCrashes ==
    /\ \E j \in running :
        /\ jobs[j].outcome = "crashes"
        /\ saving' = saving \ {j}
        /\ running' = running \ {j}
    /\ UNCHANGED <<scoring, learner_vars, policy_vars, solver_vars, artifact_complete, race_vars>>

(***************************************************************************)
(* Actions of the bot's model selection.                                   *)
(***************************************************************************)
Switches(P, Q) ==
    /\ P.current_captcha_model # Unset
    /\ Q.current_captcha_model # P.current_captcha_model

\* model_choice = self._determine_captcha_model(); model_used = model_choice
DetermineCaptchaModel ==
    /\ model_used = "none"
    /\ selections < MaxSelections
    /\ LET d == determine_captcha_model(PolicyState, captcha_model_strategy,
                                        finetuned_exists, use_finetuned_captcha)
       IN  /\ base_model_failures' = d.state.base_model_failures
           /\ finetuned_model_failures' = d.state.finetuned_model_failures
           /\ current_captcha_model' = d.state.current_captcha_model
           /\ model_used' = d.choice
           /\ since_switch' = IF Switches(PolicyState, d.state) THEN 0 ELSE since_switch
           \* a switch answers the failures recorded so far
           /\ streak_len' = IF Switches(PolicyState, d.state) THEN 0 ELSE streak_len
    /\ selections' = selections + 1
    /\ UNCHANGED <<scoring, captcha_model_strategy, use_finetuned_captcha, finetuned_exists,
                   streak_model, learner_vars, solver_vars, job_vars, race_vars>>

\* self._record_captcha_result(success, model_used) at the end of a solve
RecordCaptchaResult ==
    /\ model_used # "none"
    /\ \E success \in BOOLEAN :
        LET P == record_captcha_result(PolicyState, success, model_used)
        IN  /\ base_model_failures' = P.base_model_failures
            /\ finetuned_model_failures' = P.finetuned_model_failures
            /\ current_captcha_model' = P.current_captcha_model
            /\ streak_model' = model_used
            /\ streak_len' = IF success THEN 0
                             ELSE IF streak_model = model_used THEN streak_len + 1
                             ELSE 1
            /\ since_switch' = IF since_switch = None \/ model_used # current_captcha_model
                               THEN since_switch
                               ELSE IF success THEN 0 ELSE since_switch + 1
    /\ model_used' = "none"
    /\ UNCHANGED <<scoring, captcha_model_strategy, use_finetuned_captcha, finetuned_exists,
                   selections, learner_vars, solver_vars, job_vars, race_vars>>

\* a solve that returns before any result is recorded (an exception, fewer
\* than four images, no button to click)
AbandonSolve ==
    /\ model_used # "none"
    /\ model_used' = "none"
    /\ UNCHANGED <<scoring, base_model_failures, finetuned_model_failures, current_captcha_model,
                   captcha_model_strategy, use_finetuned_captcha, finetuned_exists,
                   selections, streak_model, streak_len, since_switch, learner_vars,
                   solver_vars, job_vars, race_vars>>

\* train_captcha_model.py has saved models/clip-captcha-finetuned
ArtifactAppears ==
    /\ ~finetuned_exists
    /\ finetuned_exists' = TRUE
    /\ artifact_complete' = TRUE
    /\ UNCHANGED <<scoring, base_model_failures, finetuned_model_failures, current_captcha_model,
                   captcha_model_strategy, use_finetuned_captcha, model_used,
                   selections, streak_model, streak_len, since_switch, learner_vars,
                   solver_vars, running, saving, race_vars>>

\* the artifact directory is removed
ArtifactRemoved ==
    /\ finetuned_exists
    /\ finetuned_exists' = FALSE
    /\ artifact_complete' = FALSE
    /\ UNCHANGED <<scoring, base_model_failures, finetuned_model_failures, current_captcha_model,
                   captcha_model_strategy, use_finetuned_captcha, model_used,
                   selections, streak_model, streak_len, since_switch, learner_vars,
                   solver_vars, running, saving, race_vars>>

(***************************************************************************)
(* A whole solve: imports, model selection and load, scoring, the click,   *)
(* the verdict, _record_captcha_result and the learner's record_attempt.   *)
(***************************************************************************)
Solve(on_page) ==
    /\ solves < MaxSolves
    /\ calls < MaxCalls
    /\ model_used = "none"
    \* (the store of a run this short never holds the 20 labels a launch
    \* needs, so one spawn outcome stands for all)
    /\ \E q \in SolverQuestions, page \in SolverPages, fault \in SolverFaults,
          verdict \in BOOLEAN, spawn \in {"completes"} :
        LET deps    == clip_env # "not_installed"
            out     == SolveOutcome(page, on_page, deps, fault, verdict)
            clicked == ClickedButton(page, on_page, out)
        IN
        \E d \in {determine_captcha_model(PolicyState, captcha_model_strategy,
                                          finetuned_exists, use_finetuned_captcha)} :
        \E P \in {IF ~deps THEN PolicyState
                   ELSE IF ~Verdict(out) THEN d.state
                   ELSE record_captcha_result(d.state, verdict, d.choice)} :
        \E L \in {IF ~Verdict(out) THEN Store
                   ELSE record_attempt(Store,
                            Call(q, clicked, verdict, ButtonImagesBytes(page),
                                 clip_env, spawn), now)} :
            \* from_pretrained raises on a directory that is still being
            \* written or was left half-written
            /\ (deps /\ d.choice = "finetuned" /\ ~artifact_complete) => fault = "load"
            /\ base_model_failures' = P.base_model_failures
            /\ finetuned_model_failures' = P.finetuned_model_failures
            /\ current_captcha_model' = P.current_captcha_model
            /\ selections' = IF deps THEN selections + 1 ELSE selections
            /\ loads' = [loads EXCEPT
                            ![d.choice] = IF deps THEN @ + 1 ELSE @,
                            !.labeler = IF Verdict(out) /\ ~verdict
                                        THEN LabelerLoads(@, L.console.clip) ELSE @]
            /\ successes' = L.successes
            /\ failures' = L.failures
            /\ stats' = L.stats
            /\ jobs' = L.jobs
            /\ console' = L.console
            /\ running' = running \cup NewJobs(jobs, L.jobs)
            /\ calls' = IF Verdict(out) THEN calls + 1 ELSE calls
            /\ solve' = [images |-> page, clicked |-> clicked, outcome |-> out,
                         returned |-> SolverReturn(out)]
    /\ solves' = solves + 1
    \* streak_model, streak_len and since_switch follow the selection steps of
    \* SpecPolicy only
    /\ UNCHANGED <<scoring, now, clip_env, captcha_model_strategy, use_finetuned_captcha,
                   finetuned_exists, model_used, streak_model, streak_len, since_switch,
                   saving, artifact_complete, race_vars>>

SolveCaptcha == Solve(FALSE)

SolveCaptchaOnPage == Solve(TRUE)

Next ==
    \/ RecordAttempt
    \/ AutoLabelScript
    \/ Tick

NextPolicy ==
    \/ DetermineCaptchaModel
    \/ RecordCaptchaResult
    \/ AbandonSolve
    \/ ArtifactAppears
    \/ ArtifactRemoved

\* the learner on the stores earlier runs left behind
Spec == Init /\ [][Next]_vars

NextStorage ==
    \/ RecordAttempt
    \/ AutoLabelScript
    \/ CorruptMetadata

\* the learner and the script on a store whose files can be damaged
SpecStorage == InitStorage /\ [][NextStorage]_vars

NextTraining ==
    \/ RecordAttempt
    \/ Tick
    \/ JobStartsSaving
    \/ JobFinishes
    \/ JobCrashes

\* the learner's training trigger and the jobs it launched
SpecTraining == InitTraining /\ [][NextTraining]_vars

NextArtifact ==
    \/ SolveCaptcha
    \/ SolveCaptchaOnPage
    \/ JobStartsSaving
    \/ JobFinishes
    \/ JobCrashes

\* the bot solving challenges while a training job writes the artifact
SpecArtifact == InitArtifact /\ [][NextArtifact]_vars

NextRace ==
    \/ AppendFailure
    \/ ImmediateLabel
    \/ RecordAttempt
    \/ ScriptReads
    \/ ScriptWritesBack

\* the bot's learner, a second process calling record_attempt and the
\* script, all writing the same failure folders
SpecRace == InitRace /\ [][NextRace]_vars

\* forward passes on every set of logits
NextScores ==
    \/ ScoreButtons
    \/ ScoringReturns

SpecScores == InitScores /\ [][NextScores]_vars

NextSolver ==
    \/ SolveCaptcha
    \/ SolveCaptchaOnPage
    \/ RecordAttempt

\* the bot solving challenges and feeding the learner, and the learner called
\* on its own
SpecSolver == InitSolver /\ [][NextSolver]_vars

\* the bot's model selection under every configured strategy
SpecPolicy == InitAnyConfig /\ [][NextPolicy]_vars

(***************************************************************************)
(* Properties.                                                             *)
(***************************************************************************)
Attempts == {successes[i] : i \in DOMAIN successes} \cup {failures[i] : i \in DOMAIN failures}

LabelFields(m) ==
    <<m.correct_answer, m.auto_labeled, m.auto_label_conf, m.auto_label_tool, m.labeled_at>>

\* the spec's label_source, read off the provenance fields the labelers write:
\* the model-based labelers record auto_label_tool, the retroactive one only
\* auto_labeled
LabelSource(m) ==
    IF m.correct_answer = None THEN "unlabeled"
    ELSE IF m.auto_label_tool # "" THEN "immediate-model"
    ELSE IF m.auto_labeled THEN "retroactive-from-success"
    ELSE "recorded"

Normalized(q) == Strip(Lower(q))

\* a record_attempt call that stored a success / a failure
RecordedSuccess == calls' = calls + 1 /\ Len(successes') = Len(successes) + 1
RecordedFailure == calls' = calls + 1 /\ Len(failures') = Len(failures) + 1
NewSuccess == successes'[Len(successes')]
NewFailure == failures'[Len(failures')]

\* C1: every stored attempt with success = true has correct_answer equal to
\* its button_clicked, in every reachable state (so after any retroactive,
\* immediate or script labeling that followed it).
C1_SuccessSelfLabeled ==
    \A m \in Attempts : m.success => m.correct_answer = m.button_clicked

\* a success is stored next to a failure the retroactive labeler labeled and a
\* failure the script labeled
C1_Witness ==
    /\ \E i \in DOMAIN successes : successes[i].success
    /\ \E i \in DOMAIN failures : LabelSource(failures[i]) = "retroactive-from-success"
    /\ \E i \in DOMAIN failures : failures[i].auto_label_tool = "base-clip"

\* C2: first writer wins: a step never changes the label fields of an attempt
\* whose correct_answer is already set.
C2_FirstWriterWins ==
    [][ /\ \A i \in DOMAIN failures :
            failures[i].correct_answer # None
                => LabelFields(failures'[i]) = LabelFields(failures[i])
        /\ \A i \in DOMAIN successes :
            LabelFields(successes'[i]) = LabelFields(successes[i])
      ]_vars

\* a failure labeled 1 by the immediate labeler keeps its label although a
\* later success on the same normalized question, clicked 3, labeled another
\* failure of that question retroactively
C2_Witness ==
    \E i \in DOMAIN failures, j \in DOMAIN failures, k \in DOMAIN successes :
        /\ failures[i].auto_label_tool = "base-clip-realtime"
        /\ Normalized(failures[i].question) = Normalized(successes[k].question)
        /\ failures[i].correct_answer # successes[k].button_clicked
        /\ Normalized(failures[j].question) = Normalized(successes[k].question)
        /\ LabelSource(failures[j]) = "retroactive-from-success"
        /\ failures[j].correct_answer = successes[k].button_clicked
        /\ failures[j].labeled_at > failures[i].labeled_at

\* C3: a record_attempt(Q, k, success) call leaves every failure that was
\* unlabeled before it and has the normalized question of Q with
\* correct_answer = k and the retroactive provenance.
C3_RetroactiveLabels ==
    [][ RecordedSuccess =>
          \A i \in DOMAIN failures :
            ( /\ failures[i].correct_answer = None
              /\ Normalized(failures[i].question) = Normalized(NewSuccess.question) )
            => /\ failures'[i].correct_answer = NewSuccess.button_clicked
               /\ LabelSource(failures'[i]) = "retroactive-from-success"
      ]_vars

\* a failure was labeled from a success whose question is written differently
C3_Witness ==
    \E i \in DOMAIN failures, k \in DOMAIN successes :
        /\ failures[i].question # successes[k].question
        /\ Normalized(failures[i].question) = Normalized(successes[k].question)
        /\ LabelSource(failures[i]) = "retroactive-from-success"
        /\ failures[i].correct_answer = successes[k].button_clicked

\* the gate of the spec on the images of m: best score below
\* 100/n + 10, or best minus second best below 5
BelowGate(m) ==
    LET ws == LoadedImages(m.images)
    IN  \/ ConfBelow(BestWeight(m.images), SumSeq(ws), Len(ws))
        \/ MarginBelow(MarginWeight(m.images), SumSeq(ws))

\* C4: a newly recorded failure whose best score is below baseline + 10 or
\* whose margin is below 5 stays unlabeled, and the call increments neither
\* auto_labeled nor labels_since_training.
C4_GateWithholdsLabel ==
    [][ ( /\ RecordedFailure
          /\ LoadedImages(NewFailure.images) # <<>>
          /\ BelowGate(NewFailure) )
        => /\ NewFailure.correct_answer = None
           /\ stats'.auto_labeled = stats.auto_labeled
           /\ stats'.labels_since_training = stats.labels_since_training
      ]_vars

\* a failure whose best score passes (40 >= 35) and whose margin does not
\* (2 < 5) was scored and left unlabeled
C4_Witness ==
    /\ console.clip = "skipped"
    /\ Len(failures) > 0
    /\ failures[Len(failures)].images = SmallMargin
    /\ failures[Len(failures)].correct_answer = None
    /\ calls > 0

\* the 1-based index of the highest of four scores (the first one among equals)
TopCandidate(images) ==
    CHOOSE i \in 1..NumButtons :
        /\ \A j \in 1..NumButtons : images[j] <= images[i]
        /\ \A j \in 1..(i - 1) : images[j] < images[i]

\* C5: with four stored images and CLIP scoring them, best score >= 35 and
\* margin >= 5 (both inclusive) make the immediate labeler write the index of
\* the top-scored candidate; scores [30, 28, 22, 20] make it write nothing.
C5_ConfidentLabelWritten ==
    [][ ( /\ RecordedFailure
          /\ clip_env = "ok"
          /\ Len(LoadedImages(NewFailure.images)) = NumButtons )
        => LET imgs == NewFailure.images
               T    == SumSeq(imgs)
               best == imgs[TopCandidate(imgs)]
               rest == {imgs[j] : j \in (1..NumButtons) \ {TopCandidate(imgs)}}
           IN  /\ ( /\ 100 * best >= 35 * T
                    /\ \A w \in rest : 100 * (best - w) >= 5 * T )
                  => NewFailure.correct_answer = TopCandidate(imgs)
               /\ imgs = LowConf => NewFailure.correct_answer = None
      ]_vars

\* scores [20, 15, 35, 30] (best exactly 35, margin exactly 5) were labeled 3
C5_Witness ==
    \E i \in DOMAIN failures :
        /\ failures[i].images = Boundary
        /\ failures[i].auto_label_tool = "base-clip-realtime"
        /\ failures[i].correct_answer = 3
        /\ calls > 0

\* the labels a step wrote and counted: auto_labeled only ever grows
NewLabelsCounted == stats'.auto_labeled - stats.auto_labeled
\* labels_since_training at the moment the step's labeler consults the trigger
LabelsAtCheck == stats.labels_since_training + NewLabelsCounted
HourElapsed ==
    stats.last_training = None \/ now - stats.last_training >= 3600
Launched == Len(jobs') = Len(jobs) + 1

\* C6: every training job was launched with labels_since_training >= 20 and,
\* when an earlier launch is recorded, at least one hour (3600 s) after it and
\* with at least 20 labels written since it.
C6_LaunchGuard ==
    \A j \in DOMAIN jobs :
        /\ jobs[j].labels >= 20
        /\ j > 1 =>
            /\ jobs[j].started - jobs[j - 1].started >= 3600
            /\ jobs[j].auto_labeled - jobs[j - 1].auto_labeled >= 20
        /\ j = Len(jobs) => stats.last_training = jobs[j].started

\* a second job was launched in this run, an hour after the first
C6_Witness ==
    /\ Len(jobs) = 2
    /\ calls > 0
    /\ jobs[2].started = now
    /\ jobs[2].started - jobs[1].started = 3600

\* C7 as stated: below 20 labels nothing is launched; on the label that
\* brings the counter to 20 with an hour elapsed a job is launched, the
\* counter becomes 0 and last_training is updated in the same step, whatever
\* happens to the job (its failing to start included).
C7_LaunchAndResetAlways ==
    [][ (calls' = calls + 1 /\ NewLabelsCounted > 0)
        => /\ LabelsAtCheck < 20 => jobs' = jobs
           /\ (LabelsAtCheck >= 20 /\ HourElapsed)
                => /\ Launched
                   /\ stats'.labels_since_training = 0
                   /\ stats'.last_training = now
      ]_vars

\* C7 as amended: the same, provided the launch itself happens (the training
\* script is beside the module and Popen returns); when it does not, no job is
\* launched and the counter and last_training are left as they were.
C7_LaunchAndReset ==
    [][ (calls' = calls + 1 /\ NewLabelsCounted > 0)
        => /\ LabelsAtCheck < 20 => jobs' = jobs
           /\ (LabelsAtCheck >= 20 /\ HourElapsed)
                => \/ /\ console'.trigger = "started"
                      /\ Launched
                      /\ stats'.labels_since_training = 0
                      /\ stats'.last_training = now
                      /\ stats'.training_count = stats.training_count + 1
                   \/ /\ console'.trigger \in {"script_missing", "popen_error"}
                      /\ jobs' = jobs
                      /\ stats'.labels_since_training = LabelsAtCheck
                      /\ stats'.last_training = stats.last_training
                      /\ stats'.training_count = stats.training_count
      ]_vars

\* the 20th label launched a job that later crashes: the counter is 0 and
\* last_training is the launch time
C7_Witness ==
    /\ Len(jobs) > 0
    /\ jobs[Len(jobs)].outcome = "crashes"
    /\ jobs[Len(jobs)].labels = 20
    /\ console.trigger = "started"
    /\ stats.labels_since_training = 0
    /\ stats.last_training = now
    /\ calls > 0

\* a _determine_captcha_model call
Selected == selections' = selections + 1

\* C8: under smart_fallback with the artifact on disk, a selection made when
\* the latest five (or more) recorded results, none of them answered by a
\* switch yet, are all failures of the active variant switches to the other
\* variant and sets that counter to 0.
C8_SwitchAfterFiveFailures ==
    [][ ( /\ Selected
          /\ captcha_model_strategy = "smart_fallback"
          /\ finetuned_exists
          /\ streak_len >= 5
          /\ streak_model = current_captcha_model )
        => /\ current_captcha_model = "finetuned"
              => (current_captcha_model' = "base" /\ finetuned_model_failures' = 0)
           /\ current_captcha_model = "base"
              => (current_captcha_model' = "finetuned" /\ base_model_failures' = 0)
      ]_vars

\* the selection after five finetuned failures in a row chose base
C8_Witness ==
    /\ captcha_model_strategy = "smart_fallback"
    /\ streak_model = "finetuned"
    /\ streak_len = 0
    /\ since_switch = 0
    /\ current_captcha_model = "base"
    /\ model_used = "base"
    /\ finetuned_model_failures = 0
    /\ finetuned_exists

\* the symmetric case: after five base failures in a row it chose finetuned
C8_WitnessBase ==
    /\ captcha_model_strategy = "smart_fallback"
    /\ streak_model = "base"
    /\ streak_len = 0
    /\ current_captcha_model = "finetuned"
    /\ model_used = "finetuned"
    /\ base_model_failures = 0
    /\ since_switch = 0

\* C9: the first selection of a process (under smart_fallback) returns
\* finetuned iff the artifact exists at that moment, and
\* current_captcha_model is the variant it returned.
C9_FirstSelection ==
    [][ ( /\ Selected
          /\ selections = 0
          /\ captcha_model_strategy = "smart_fallback" )
        => /\ model_used' = "finetuned" <=> finetuned_exists
           /\ current_captcha_model' = model_used'
      ]_vars

\* C10: a switch away from a variant that was itself activated by a switch
\* happens only after at least threshold failures of that variant since it
\* was activated, with no success of it in between.
C10_NoThrashing ==
    [][ ( /\ Selected
          /\ current_captcha_model # Unset
          /\ current_captcha_model' # current_captcha_model
          /\ since_switch # None )
        => since_switch >= 5
      ]_vars

\* C11: every label is a button number 1..4 whose image file exists in the
\* folder of the attempt it labels.
C11_LabelNamesStoredImage ==
    \A m \in Attempts :
        m.correct_answer # None
            => /\ m.correct_answer \in 1..4
               /\ HasImage(m.images[m.correct_answer])

\* a _solve_captcha or _solve_captcha_on_page call
Solved == solves' = solves + 1

\* the solve scored its candidates (no import, load or scoring error, enough
\* images)
ScoringSucceeded(s) == s.outcome \in {"solved", "failed", "no_button", "check_error"}

\* the 1-based index of the highest score of the page, the lowest such index
\* when several are equal
MaxScoreIndex(page) ==
    CHOOSE i \in DOMAIN page :
        /\ HasImage(page[i])
        /\ \A j \in DOMAIN page : page[j] <= page[i]
        /\ \A j \in 1..(i - 1) : page[j] < page[i]

\* C12: every solve whose scoring succeeds clicks the candidate with the
\* maximal score (the lowest index among equal scores), whatever the
\* confidence and the margin are.
C12_SubmitsArgMax ==
    [][ (Solved /\ ScoringSucceeded(solve'))
        => solve'.clicked = MaxScoreIndex(solve'.images)
      ]_vars

C17_LoadedOnce ==
    /\ loads.base <= 1
    /\ loads.finetuned <= 1
    /\ loads.labeler <= 1

\* what record_attempt stores of an attempt besides its labeling fields
AttemptFields(m) == <<m.question, m.button_clicked, m.success, m.images>>

\* C18: no step removes an attempt, moves it to the other partition or
\* changes its question, clicked button, success flag or images; only the
\* labeling fields of a stored attempt may change.
C18_AttemptsAppendOnly ==
    [][ /\ Len(successes') >= Len(successes)
        /\ Len(failures') >= Len(failures)
        /\ \A i \in DOMAIN successes :
            /\ AttemptFields(successes'[i]) = AttemptFields(successes[i])
            /\ successes'[i].success
        /\ \A i \in DOMAIN failures :
            /\ AttemptFields(failures'[i]) = AttemptFields(failures[i])
            /\ ~failures'[i].success
      ]_vars

\* stored failures were labeled in this run, one from a later success and one
\* by the script, next to the success that was appended
C18_Witness ==
    /\ calls > 0
    /\ Len(successes) > 0
    /\ \E i \in DOMAIN failures :
        /\ LabelSource(failures[i]) = "retroactive-from-success"
        /\ failures[i].labeled_at >= StartTime
        /\ failures[i].button_clicked # failures[i].correct_answer
    /\ \E j \in DOMAIN failures :
        /\ failures[j].auto_label_tool = "base-clip"
        /\ failures[j].labeled_at >= StartTime

\* a run of auto_label_captcha.py in write mode that wrote something
ScriptRan == calls' = calls /\ now' = now /\ failures' # failures

\* C20: after a run of the script in write mode, a second run (at once or
\* half an hour later, same scorer) leaves every metadata record as it is.
C20_ScriptIdempotent ==
    [][ ScriptRan =>
          \A t \in {now, now + 1800} :
              auto_label_captcha(failures', FALSE, FALSE, clip_env, t) = failures'
      ]_vars

\* the script labeled a failure and declined another whose images it scored
C20_Witness ==
    /\ clip_env = "ok"
    /\ \E i \in DOMAIN failures :
        /\ failures[i].auto_label_tool = "base-clip"
        /\ failures[i].labeled_at >= StartTime
    /\ \E j \in DOMAIN failures :
        /\ failures[j].correct_answer = None
        /\ LoadedImages(failures[j].images) # <<>>

\* C13: a record_attempt of a success, made while some failure folder has a
\* missing or malformed metadata.json, does not raise, saves the statistics
\* with the attempt counted, and labels every failure that has a readable,
\* unlabeled metadata record with the question of the success.
C13_StorageFailuresSkipped ==
    [][ RecordedSuccess =>
          /\ ~console'.raised
          /\ stats'.total_attempts = stats.total_attempts + 1
          /\ stats'.total_successes = stats.total_successes + 1
          /\ \A i \in DOMAIN failures :
                ( /\ failures[i].file = "ok"
                  /\ failures[i].correct_answer = None
                  /\ Normalized(failures[i].question) = Normalized(NewSuccess.question) )
                => failures'[i].correct_answer = NewSuccess.button_clicked
      ]_vars

\* C16: at most one background training job is running at any time.
C16_AtMostOneJob == Cardinality(running) <= 1

\* C15: a solve made while models/clip-captcha-finetuned exists but is only
\* partially written does not select the fine-tuned variant: it does not
\* attempt to load it.
C15_PartialArtifactNotSelected ==
    [][ (Solved /\ finetuned_exists /\ ~artifact_complete)
            => loads'.finetuned = loads.finetuned ]_vars

\* C19: however the immediate labeler, a retroactive labeler of another
\* process and the script interleave, no step replaces a correct_answer that
\* is already written by a different value.
C19_RaceSafeLabels ==
    [][ \A i \in DOMAIN failures :
            failures[i].correct_answer # None
                => failures'[i].correct_answer = failures[i].correct_answer ]_vars

\* C21: a run of auto_label_captcha.py with --dry-run or with --review (or
\* both) leaves every failure's metadata as it was, whatever the failures
\* partition holds.
C21_DryRunAndReviewWriteNothing ==
    \A dry_run \in BOOLEAN, review \in BOOLEAN :
        (dry_run \/ review)
            => auto_label_captcha(failures, dry_run, review, clip_env, now) = failures

\* a store on which the plain run does write, and one holding labeled
\* failures that --review scores again
C21_Witness ==
    /\ auto_label_captcha(failures, FALSE, FALSE, clip_env, now) # failures
    /\ \E i \in DOMAIN failures :
        IsLabeled(failures[i]) /\ ScriptWritesOnDryRun(failures[i], TRUE, TRUE, clip_env)

\* C22: the avg_probs of every forward pass (the mean over the text
\* variations of the softmax taken across the images) sum to 1, and when the
\* logits do not tell the images apart every image scores 1/num_images, the
\* random baseline.
C22_ScoresSumToOne ==
    scoring # NoScoring =>
        LET P == scoring.avg_probs
            n == Len(scoring.logits)
        IN  /\ SumOver(P.num, n) = P.den
            /\ (\A i \in 1..n : scoring.logits[i] = scoring.logits[1])
                    => \A i \in 1..n : P.num[i] * n = P.den

\* four images, the texts disagreeing on which one wins
C22_Witness ==
    /\ scoring # NoScoring
    /\ Len(scoring.logits) = NumButtons
    /\ scoring.logits[1] = <<MaxExp, 1>>
    /\ scoring.logits[2] = <<1, MaxExp>>
    /\ scoring.avg_probs.num[1] # scoring.avg_probs.num[3]

\* the labels a record_attempt step wrote: failures that went from unlabeled
\* to labeled, and a failure appended with its label
LabelsWritten ==
    Cardinality({i \in DOMAIN failures' :
        /\ failures'[i].correct_answer # None
        /\ i \in DOMAIN failures => failures[i].correct_answer = None})

PolicySawSuccess ==
    /\ model_used # "none" /\ model_used' = "none"
    /\ streak_model' = model_used /\ streak_len' = 0
    /\ <<streak_model', streak_len'>> # <<streak_model, streak_len>>
\* a step in which _record_captcha_result(False, model_used) ran
PolicySawFailure ==
    /\ model_used # "none" /\ model_used' = "none"
    /\ streak_model' = model_used
    /\ streak_len' = (IF streak_model = model_used THEN streak_len + 1 ELSE 1)

\* the failure counter of variant v
FailuresOf(P, v) ==
    IF v = "base" THEN P.base_model_failures ELSE P.finetuned_model_failures
OtherVariant(v) == IF v = "base" THEN "finetuned" ELSE "base"
PolicyStateNext ==
    [base_model_failures |-> base_model_failures',
     finetuned_model_failures |-> finetuned_model_failures',
     current_captcha_model |-> current_captcha_model']

\* C24: recording a result for variant V sets V's failure counter to 0 on a
\* success and adds exactly 1 to it on a failure, and leaves the other
\* variant's counter and the active variant as they were.
C24_ResultTouchesOneCounter ==
    [][ (PolicySawSuccess \/ PolicySawFailure) =>
          /\ FailuresOf(PolicyStateNext, model_used)
                = (IF PolicySawSuccess THEN 0 ELSE FailuresOf(PolicyState, model_used) + 1)
          /\ FailuresOf(PolicyStateNext, OtherVariant(model_used))
                = FailuresOf(PolicyState, OtherVariant(model_used))
          /\ current_captcha_model' = current_captcha_model
      ]_vars

\* a failure was just recorded for one variant while the other variant's
\* counter stands above 0
C24_Witness ==
    /\ model_used = "none"
    /\ streak_len >= 1
    /\ streak_model \in {"base", "finetuned"}
    /\ FailuresOf(PolicyState, streak_model) >= 2
    /\ FailuresOf(PolicyState, OtherVariant(streak_model)) >= 1

\* C25: a record_attempt of a success on question Q leaves unchanged every
\* stored success, every failure that was already labeled and every failure
\* whose normalized question differs from normalized(Q); it adds no failure.
C25_RetroactiveFrame ==
    [][ RecordedSuccess =>
          /\ SubSeq(successes', 1, Len(successes)) = successes
          /\ DOMAIN failures' = DOMAIN failures
          /\ \A i \in DOMAIN failures :
                ( \/ failures[i].correct_answer # None
                  \/ Normalized(failures[i].question) # Normalized(NewSuccess.question) )
                => failures'[i] = failures[i]
      ]_vars

\* the last call was a success that labeled a failure, beside a failure on
\* the same question labeled earlier with another button and an unlabeled
\* failure on another question
C25_Witness ==
    /\ calls > 0 /\ console.clip = "none" /\ successes # <<>>
    /\ LET s == successes[Len(successes)]
       IN  /\ \E i \in DOMAIN failures :
                /\ LabelSource(failures[i]) = "retroactive-from-success"
                /\ failures[i].labeled_at = now
                /\ failures[i].correct_answer = s.button_clicked
           /\ \E i \in DOMAIN failures :
                /\ Normalized(failures[i].question) = Normalized(s.question)
                /\ failures[i].correct_answer \notin {None, s.button_clicked}
           /\ \E i \in DOMAIN failures :
                /\ Normalized(failures[i].question) # Normalized(s.question)
                /\ failures[i].correct_answer = None

\* both thresholds of _check_auto_training are met in the state a step leaves
ArmedAfter ==
    /\ stats'.labels_since_training >= MIN_LABELS_FOR_TRAINING
    /\ \/ stats'.last_training = None
       \/ now' - stats'.last_training >= MIN_HOURS_BETWEEN_TRAINING * SecondsPerHour

\* C26: no record_attempt call returns with labels_since_training >= 20 and
\* an hour elapsed since last_training (or no training ever run) unless that
\* call launched a training job (or tried to: a launch the environment
\* refused is not held against the trigger).
C26_TriggerNotLeftArmed ==
    [][ calls' = calls + 1 =>
          ( (ArmedAfter /\ console'.trigger \notin {"script_missing", "popen_error"})
                => Launched )
      ]_vars

\* a solve that clicked a button
Submitted == Solved /\ solve'.clicked # None
\* the variant the solve loaded
VariantUsed == IF loads'.base = loads.base + 1 THEN "base" ELSE "finetuned"
\* the attempt folder a step added, <<>> when it added none or several
AttemptsAdded ==
    SubSeq(successes', Len(successes) + 1, Len(successes'))
        \o SubSeq(failures', Len(failures) + 1, Len(failures'))

\* C27: every solve that clicks a button reports the outcome once to the
\* model selection policy, for the variant it loaded, and once to the attempt
\* store, with the same success value, the question asked and the button
\* clicked.
C27_OutcomeReportedToBoth ==
    [][ Submitted =>
          LET ok == solve'.outcome = "solved"
              d  == determine_captcha_model(PolicyState, captcha_model_strategy,
                                            finetuned_exists, use_finetuned_captcha)
          IN  /\ PolicyStateNext = record_captcha_result(d.state, ok, VariantUsed)
              /\ calls' = calls + 1
              /\ Len(AttemptsAdded) = 1
              /\ AttemptsAdded[1].success = ok
              /\ AttemptsAdded[1].button_clicked = solve'.clicked
              /\ AttemptsAdded[1].question \in SolverQuestions
      ]_vars

\* C28: no stored failure is labeled with the button it clicked: its
\* correct_answer is absent or differs from its button_clicked.
C28_LabelNotTheWrongClick ==
    \A i \in DOMAIN failures :
        failures[i].correct_answer = None
            \/ failures[i].correct_answer # failures[i].button_clicked

\* C29: under smart_fallback both failure counters stay within
\* 0..captcha_failure_threshold and the counter of the variant that is not
\* the active one is 0, in every reachable state.
C29_CountersBounded ==
    captcha_model_strategy = "smart_fallback" =>
        /\ base_model_failures \in 0..captcha_failure_threshold
        /\ finetuned_model_failures \in 0..captcha_failure_threshold
        /\ current_captcha_model = "base" => finetuned_model_failures = 0
        /\ current_captcha_model = "finetuned" => base_model_failures = 0

\* C30: the persisted statistics agree with the store: total_attempts =
\* total_successes + total_failures, total_successes is the number of success
\* folders and total_failures the number of failure folders, also after a
\* record_attempt call that raised part-way.
C30_StatsMatchFolders ==
    /\ stats.total_attempts = stats.total_successes + stats.total_failures
    /\ stats.total_successes = Len(successes)
    /\ stats.total_failures = Len(failures)

====
